---- MODULE Spec2Model ----
(***************************************************************************)
(* Set diffing and set materialization of bookbrainz-data                  *)
(* (src/unnamed/part_002: getComparisonFunc, getUnchangedItems,            *)
(* getAddedItems, getRemovedItems, createNewSetWithItems,                  *)
(* createNewRelationshipAttributeSetWithItems).                            *)
(*                                                                         *)
(* An item is a record; a property that the record does not carry reads as *)
(* undefined.  Property values are the values a stored row or a parsed     *)
(* JSON body can carry (strings, numbers, booleans, null), for which the   *)
(* strict inequality !== is the complement of equality of values.          *)
(***************************************************************************)
EXTENDS Integers, Sequences, FiniteSets, TLC

VARIABLES
    oldSet,          \* differ input: the items before the change
    newSet,          \* differ input: the items after the change
    compareFields,   \* differ input: the field names given to getComparisonFunc
    diffPc,          \* "input" | "diffed" | "compared"
    unchangedOut,    \* getUnchangedItems(oldSet, newSet, cmp)
    addedOut,        \* getAddedItems(oldSet, newSet, cmp)
    removedOut,      \* getRemovedItems(oldSet, newSet, cmp)
    addedSwapOut,    \* getAddedItems(newSet, oldSet, cmp)
    cmpArgs,         \* the two objects Cmp was applied to
    cmpOut,          \* the boolean Cmp returned
    fn,              \* the materializer function called, "" before the call
    transacting,     \* the transaction handle the caller passes
    unchangedItems,  \* argument
    addedItems,      \* argument
    itemsAttribute,  \* argument
    pc,              \* position of the async function body
    result,          \* what the returned promise settled to
    newSetId,        \* id of newSet, 0 before it is saved
    tasks,           \* one per added item: the callback mapped over addedItems
    db,              \* the stored rows: committed, and pending in the transaction
    nextId,          \* the id sequences of the set table and the item table
    tx,              \* the caller's transaction: "open" | "committed" | "rolledback"
    calls,           \* the persistence calls made so far
    smDb,            \* set model tests: the stored set, item and pivot rows
    smPc,            \* set model tests: "start" | "saved" | "attached" | "loaded"
    smAttached,      \* set model tests: the item models given to attach
    smLoaded,        \* set model tests: the items of the refreshed set model
    redirects,       \* the entity_redirect table: source bbid -> target bbid or "none"
    rdArg,           \* recursivelyGetRedirectBBID: the arguments of the outer call
    rdCur,           \* the arguments of the innermost call
    rdPc,            \* "idle" | "query" | "returned" | "threw"
    rdResult,        \* the bbid the outer call resolved to
    rdLog,           \* the redirect lookups made: bbid and what ran the query
    edDb,            \* deleteEditorByMetaBrainzID: the committed editor and language rows
    edBefore,        \* the committed rows when the call was made
    edView,          \* the rows as the open transaction sees them
    edArg,           \* metabrainzUserID
    edPc,            \* "idle" | "select" | "writes" | "done"
    editorID,        \* the looked-up editor id, "null" when there is none
    edWrites,        \* the two writes of Promise.all: "pending" | "ok" | "failed"
    edResult,        \* "none" | "true" | "false" | "error"
    edTx,            \* "none" | "open" | "committed" | "rolledback"
    edFault          \* whether the database failed a statement it could have run

diffVars == <<oldSet, newSet, compareFields, diffPc, unchangedOut, addedOut,
              removedOut, addedSwapOut, cmpArgs, cmpOut>>

matVars == <<fn, transacting, unchangedItems, addedItems, itemsAttribute, pc,
             result, newSetId, tasks, db, nextId, tx, calls>>

smVars == <<smDb, smPc, smAttached, smLoaded>>

rdVars == <<redirects, rdArg, rdCur, rdPc, rdResult, rdLog>>

edVars == <<edDb, edBefore, edView, edArg, edPc, editorID, edWrites, edResult, edTx, edFault>>

restVars == <<smVars, rdVars, edVars>>

vars == <<diffVars, matVars, restVars>>

----------------------------------------------------------------------------
(* Bounds of the differ's inputs *)

MaxItems == 4        \* Len(oldSet) + Len(newSet) is at most MaxItems

Ids == {1, 2}
Names == {"a", "b"}
Langs == {"x"}

\* Items: every item has an id and a name, the language is optional.
DiffItems ==
    { [id |-> i, name |-> n] : i \in Ids, n \in Names }
    \cup { [id |-> i, name |-> n, lang |-> l] : i \in Ids, n \in Names, l \in Langs }

CompareFieldLists == { <<>>, <<"name">>, <<"name", "lang">> }

SeqsUpTo(S, n) == UNION { [1..k -> S] : k \in 0..n }

Range(s) == { s[i] : i \in DOMAIN s }

Min(a, b) == IF a < b THEN a ELSE b

----------------------------------------------------------------------------
(* getComparisonFunc *)

\* obj[field]: a one-element tuple holding the value, or the empty tuple
\* (undefined) when the object has no such property.
Prop(obj, field) == IF field \in DOMAIN obj THEN <<obj[field]>> ELSE <<>>

\* The closure returned by getComparisonFunc: it captures compareFields.
getComparisonFunc(fields) == [compareFields |-> fields]

\* for (const field of compareFields) { if (obj[field] !== other[field]) return false; } return true;
RECURSIVE CmpFrom(_, _, _, _)
CmpFrom(fields, i, obj, other) ==
    IF i > Len(fields) THEN TRUE
    ELSE IF Prop(obj, fields[i]) # Prop(other, fields[i]) THEN FALSE
    ELSE CmpFrom(fields, i + 1, obj, other)

CmpFirstFieldOnly(comparisonFunc, obj, other) ==
    LET fields == comparisonFunc.compareFields IN
    IF Len(fields) = 0 THEN TRUE
    ELSE Prop(obj, fields[1]) = Prop(other, fields[1])

Cmp(comparisonFunc, obj, other) ==
    CmpFrom(comparisonFunc.compareFields, 1, obj, other)

----------------------------------------------------------------------------
(* lodash: uniqWith, differenceWith, intersectionWith with a comparator *)

\* arrayIncludesWith(array, value, comparator)
arrayIncludesWith(array, value, comparisonFunc) ==
    \E i \in DOMAIN array : Cmp(comparisonFunc, value, array[i])

\* baseUniq with a comparator: a value is pushed unless the result already
\* holds a comparator-equal one.
RECURSIVE baseUniq(_, _, _, _)
baseUniq(array, comparisonFunc, index, acc) ==
    IF index > Len(array) THEN acc
    ELSE baseUniq(array, comparisonFunc, index + 1,
            IF arrayIncludesWith(acc, array[index], comparisonFunc)
            THEN acc
            ELSE Append(acc, array[index]))

uniqWith(array, comparisonFunc) == baseUniq(array, comparisonFunc, 1, <<>>)

\* baseDifference with a comparator: the values of array that no value of
\* values is comparator-equal to, in order, without deduplication.
differenceWith(array, values, comparisonFunc) ==
    SelectSeq(array, LAMBDA v : ~arrayIncludesWith(values, v, comparisonFunc))

\* baseIntersection with a comparator: the loop stops once the result is as
\* long as the shortest input.
RECURSIVE baseIntersection(_, _, _, _, _)
baseIntersection(array, other, comparisonFunc, index, acc) ==
    IF index > Len(array) \/ Len(acc) >= Min(Len(array), Len(other))
    THEN acc
    ELSE baseIntersection(array, other, comparisonFunc, index + 1,
            IF /\ ~arrayIncludesWith(acc, array[index], comparisonFunc)
               /\ arrayIncludesWith(other, array[index], comparisonFunc)
            THEN Append(acc, array[index])
            ELSE acc)

intersectionWith(array, other, comparisonFunc) ==
    baseIntersection(array, other, comparisonFunc, 1, <<>>)

----------------------------------------------------------------------------
(* getUnchangedItems / getAddedItems / getRemovedItems *)

getUnchangedItemsFromNew(old, new, comparisonFunc) ==
    uniqWith(intersectionWith(new, old, comparisonFunc), comparisonFunc)

getUnchangedItemsByDifference(old, new, comparisonFunc) ==
    uniqWith(differenceWith(old, new, comparisonFunc), comparisonFunc)

getUnchangedItems(old, new, comparisonFunc) ==
    uniqWith(intersectionWith(old, new, comparisonFunc), comparisonFunc)

getAddedItemsNoUniq(old, new, comparisonFunc) ==
    differenceWith(new, old, comparisonFunc)

getAddedItems(old, new, comparisonFunc) ==
    uniqWith(differenceWith(new, old, comparisonFunc), comparisonFunc)

getRemovedItemsNoUniq(old, new, comparisonFunc) ==
    differenceWith(old, new, comparisonFunc)

getRemovedItems(old, new, comparisonFunc) ==
    uniqWith(differenceWith(old, new, comparisonFunc), comparisonFunc)

----------------------------------------------------------------------------
(* The parts of the state the other operations use, at rest *)

UndefinedArg == "undefined"      \* an argument that is not passed

TestSetId == 1                   \* the id the tests give the set they insert

SmIdle ==
    /\ smDb = [sets |-> {}, items |-> {}, pivot |-> {}]
    /\ smPc = "start"
    /\ smAttached = <<>>
    /\ smLoaded = {}

RdIdle ==
    /\ redirects = <<>>
    /\ rdArg = [bbid |-> "", transacting |-> UndefinedArg]
    /\ rdCur = [bbid |-> "", transacting |-> UndefinedArg]
    /\ rdPc = "idle"
    /\ rdResult = ""
    /\ rdLog = {}

EdIdle ==
    /\ edDb = [editors |-> {}, languages |-> {}]
    /\ edBefore = [editors |-> {}, languages |-> {}]
    /\ edView = [editors |-> {}, languages |-> {}]
    /\ edArg = ""
    /\ edPc = "idle"
    /\ editorID = "null"
    /\ edWrites = [clearEditor |-> "pending", clearEditorLanguages |-> "pending"]
    /\ edResult = "none"
    /\ edTx = "none"
    /\ edFault = FALSE

----------------------------------------------------------------------------
(* The set materializer: createNewSetWithItems and                         *)
(* createNewRelationshipAttributeSetWithItems                              *)

MaxAdded == 2        \* Len(addedItems) is at most MaxAdded

Trx == "trx"         \* the caller's transaction handle
NoTrx == "none"      \* no handle: the statement runs on its own and is committed at once

Omitted == "<omitted>"   \* itemsAttribute not passed (undefined)

Functions == { "createNewSetWithItems", "createNewRelationshipAttributeSetWithItems" }

ItemsAttributeInputs == { Omitted, "", "relationshipAttributes" }

\* The rows stored before the call: set 1 holds items 1 and 2.
ExistingDb ==
    [ sets   |-> { 1 },
      items  |-> { [id |-> 1, attributeType |-> "t1"], [id |-> 2, attributeType |-> "t2"] },
      links  |-> { <<1, 1>>, <<1, 2>> },
      values |-> { [attributeId |-> 1, textValue |-> "x"],
                   [attributeId |-> 2, textValue |-> "y"] } ]

EmptyDb == [ sets |-> {}, items |-> {}, links |-> {}, values |-> {} ]

\* The stored items as item objects (what a caller passes as unchanged).
ExistingItems ==
    { [id |-> 1, attributeType |-> "t1", value |-> [textValue |-> "x"]],
      [id |-> 2, attributeType |-> "t2", value |-> [textValue |-> "y"]] }

UnchangedInputs ==
    { s \in SeqsUpTo(ExistingItems, Cardinality(ExistingItems)) :
        \A i, j \in DOMAIN s : i # j => s[i] # s[j] }

\* New items: without an id, or carrying the id of a stored row (an item that
\* was edited keeps the id of the row it was loaded from).
IncomingIds == { 1 }

NewItems ==
    { [attributeType |-> "t1", value |-> [textValue |-> v]] : v \in { "x", "y" } }
    \cup { [id |-> i, attributeType |-> "t1", value |-> [textValue |-> v]] :
             i \in IncomingIds, v \in { "x", "y" } }

NoResult == [kind |-> "none", set |-> 0, error |-> <<>>]
NullResult == [kind |-> "null", set |-> 0, error |-> <<>>]
SetResult(id) == [kind |-> "set", set |-> id, error |-> <<>>]
ErrorResult(e) == [kind |-> "error", set |-> 0, error |-> e]

\* lodash helpers
isEmpty(array) == Len(array) = 0
omit(obj, field) == [f \in DOMAIN obj \ {field} |-> obj[f]]
pick(obj, field) == [f \in DOMAIN obj \cap {field} |-> obj[f]]
mapField(array, field) == [i \in DOMAIN array |-> array[i][field]]

\* !itemsAttribute
FalsyOnlyUndefined(attribute) == attribute = Omitted

Falsy(attribute) == attribute = Omitted \/ attribute = ""

\* _.isEmpty(unchangedItems) && _.isEmpty(addedItems)
ShortCircuitNever(unchanged, added) == FALSE

ShortCircuit(unchanged, added) == isEmpty(unchanged) /\ isEmpty(added)

\* The options object of each persistence call.
SaveSetOptions == [transacting |-> transacting]
FetchOptions == [transacting |-> transacting]
AttachOptions == [transacting |-> transacting]

CreateOptionsWithoutTransaction == [transacting |-> NoTrx]

CreateOptions == [transacting |-> transacting]

SaveValueOptionsWithoutTransaction == [method |-> "insert", transacting |-> NoTrx]

SaveValueOptions == [method |-> "insert", transacting |-> transacting]

\* The attributes handed to collection.create for an added item.
NewItemAttrsKeepId(ident) ==
    IF fn = "createNewSetWithItems" THEN ident ELSE pick(ident, "attributeType")

NewItemAttrs(ident) ==
    IF fn = "createNewSetWithItems"
    THEN omit(ident, "id")
    ELSE pick(ident, "attributeType")

\* new RelationshipAttributeTextValue({attributeId: model.get('id'), textValue: value.textValue})
TextValueRowOfType(modelId, ident) ==
    [attributeId |-> modelId, textValue |-> ident.attributeType]

TextValueRow(modelId, ident) ==
    [attributeId |-> modelId, textValue |-> ident.value.textValue]

\* A statement given the transaction handle runs only while the transaction
\* is open; one given no handle always runs.
CanRun(options) == options.transacting = Trx => tx = "open"

\* Rows written under the handle are pending in the transaction; rows written
\* without it are committed at once.
Insert(d, table, rows, options) ==
    IF options.transacting = Trx
    THEN [d EXCEPT !.pending[table] = @ \cup rows]
    ELSE [d EXCEPT !.committed[table] = @ \cup rows]

VisibleItemIds == { r.id : r \in db.committed.items \cup db.pending.items }

\* model.save() of collection.create: attributes without an id are inserted
\* and the database generates the id; attributes that carry an id make the
\* model not new, and save() updates the stored row of that id.
IsNew(attrs) == "id" \notin DOMAIN attrs

StoredRow(attrs) ==
    IF "id" \in DOMAIN attrs THEN attrs
    ELSE [f \in DOMAIN attrs \cup {"id"} |-> IF f = "id" THEN nextId.item ELSE attrs[f]]

Logged(op, item, options) ==
    calls \cup { [op |-> op, item |-> item, transacting |-> options.transacting] }

MatIdle ==
    /\ fn = ""
    /\ transacting = Trx
    /\ unchangedItems = <<>>
    /\ addedItems = <<>>
    /\ itemsAttribute = ""
    /\ pc = "idle"
    /\ result = NoResult
    /\ newSetId = 0
    /\ tasks = <<>>
    /\ db = [committed |-> ExistingDb, pending |-> EmptyDb]
    /\ nextId = [set |-> 2, item |-> 3]
    /\ tx = "open"
    /\ calls = {}

DiffIdle ==
    /\ oldSet = <<>>
    /\ newSet = <<>>
    /\ compareFields = <<>>
    /\ diffPc = "input"
    /\ unchangedOut = <<>>
    /\ addedOut = <<>>
    /\ removedOut = <<>>
    /\ addedSwapOut = <<>>
    /\ cmpArgs = <<>>
    /\ cmpOut = FALSE

Init == MatIdle /\ DiffIdle /\ SmIdle /\ RdIdle /\ EdIdle

\* The call up to its first await: the argument check, the short-circuit.
Call ==
    /\ pc = "idle"
    /\ \E f \in Functions, u \in UnchangedInputs,
          a \in SeqsUpTo(NewItems, MaxAdded), attr \in ItemsAttributeInputs :
          /\ fn' = f
          /\ unchangedItems' = u
          /\ addedItems' = a
          /\ itemsAttribute' = attr
          /\ IF Falsy(attr)
             THEN /\ result' = ErrorResult(<<"itemsAttribute must be set", f>>)
                  /\ pc' = "done"
             ELSE IF ShortCircuit(u, a)
             THEN /\ result' = NullResult
                  /\ pc' = "done"
             ELSE /\ result' = result
                  /\ pc' = "saveSet"
    /\ UNCHANGED <<transacting, newSetId, tasks, db, nextId, tx, calls>>
    /\ UNCHANGED <<diffVars, restVars>>

\* const newSet = await new SetModel().save(null, {transacting});
SaveSetOk ==
    /\ pc = "saveSet"
    /\ CanRun(SaveSetOptions)
    /\ calls' = Logged("saveSet", 0, SaveSetOptions)
    /\ db' = Insert(db, "sets", { nextId.set }, SaveSetOptions)
    /\ newSetId' = nextId.set
    /\ nextId' = [nextId EXCEPT !.set = @ + 1]
    /\ pc' = "fetch"
    /\ UNCHANGED <<fn, transacting, unchangedItems, addedItems, itemsAttribute,
                   result, tasks, tx>>
    /\ UNCHANGED <<diffVars, restVars>>

SaveSetFail ==
    /\ pc = "saveSet"
    /\ calls' = Logged("saveSet", 0, SaveSetOptions)
    /\ result' = ErrorResult(<<"saveSet", 0>>)
    /\ pc' = "done"
    /\ UNCHANGED <<fn, transacting, unchangedItems, addedItems, itemsAttribute,
                   newSetId, tasks, db, nextId, tx>>
    /\ UNCHANGED <<diffVars, restVars>>

\* const newSetItemsCollection = await newSet.related(itemsAttribute).fetch({transacting});
FetchOk ==
    /\ pc = "fetch"
    /\ CanRun(FetchOptions)
    /\ calls' = Logged("fetch", 0, FetchOptions)
    /\ pc' = "attach"
    /\ UNCHANGED <<fn, transacting, unchangedItems, addedItems, itemsAttribute,
                   result, newSetId, tasks, db, nextId, tx>>
    /\ UNCHANGED <<diffVars, restVars>>

FetchFail ==
    /\ pc = "fetch"
    /\ calls' = Logged("fetch", 0, FetchOptions)
    /\ result' = ErrorResult(<<"fetch", 0>>)
    /\ pc' = "done"
    /\ UNCHANGED <<fn, transacting, unchangedItems, addedItems, itemsAttribute,
                   newSetId, tasks, db, nextId, tx>>
    /\ UNCHANGED <<diffVars, restVars>>

AttachOkNotAwaited ==
    /\ pc = "attach"
    /\ CanRun(AttachOptions)
    /\ calls' = Logged("attach", 0, AttachOptions)
    /\ tasks' = [i \in DOMAIN addedItems |-> [pc |-> "createRow", model |-> 0]]
    /\ pc' = "createAll"
    /\ UNCHANGED <<fn, transacting, unchangedItems, addedItems, itemsAttribute,
                   result, newSetId, nextId, tx, db>>
    /\ UNCHANGED <<diffVars, restVars>>

\* await newSetItemsCollection.attach(_.map(unchangedItems, idAttribute), {transacting});
\* then Promise.all(_.map(addedItems, ...)) starts one callback per added item.
AttachOk ==
    /\ pc = "attach"
    /\ CanRun(AttachOptions)
    /\ calls' = Logged("attach", 0, AttachOptions)
    /\ db' = Insert(db, "links",
                    { <<newSetId, id>> : id \in Range(mapField(unchangedItems, "id")) },
                    AttachOptions)
    /\ tasks' = [i \in DOMAIN addedItems |-> [pc |-> "createRow", model |-> 0]]
    /\ pc' = "createAll"
    /\ UNCHANGED <<fn, transacting, unchangedItems, addedItems, itemsAttribute,
                   result, newSetId, nextId, tx>>
    /\ UNCHANGED <<diffVars, restVars>>

\* attach fails after linking some, but not all, of the ids.
AttachFail ==
    /\ pc = "attach"
    /\ calls' = Logged("attach", 0, AttachOptions)
    /\ LET ids == Range(mapField(unchangedItems, "id")) IN
       \E done \in SUBSET ids :
          /\ done # ids \/ ids = {}
          /\ db' = Insert(db, "links", { <<newSetId, id>> : id \in done }, AttachOptions)
    /\ result' = ErrorResult(<<"attach", 0>>)
    /\ pc' = "done"
    /\ UNCHANGED <<fn, transacting, unchangedItems, addedItems, itemsAttribute,
                   newSetId, tasks, nextId, tx>>
    /\ UNCHANGED <<diffVars, restVars>>

TaskFailsSwallowed(i, e) ==
    /\ tasks' = [tasks EXCEPT ![i].pc = "failed"]
    /\ result' = result
    /\ pc' = pc

\* A callback of Promise.all rejects: Promise.all rejects with the first
\* rejection, and the function throws it if it has not settled yet.
TaskFails(i, e) ==
    /\ tasks' = [tasks EXCEPT ![i].pc = "failed"]
    /\ result' = IF pc = "createAll" THEN ErrorResult(e) ELSE result
    /\ pc' = IF pc = "createAll" THEN "done" ELSE pc

\* collection.create(attrs, {transacting}), first half: the item row is inserted.
CreateRowOk(i) ==
    /\ tasks[i].pc = "createRow"
    /\ CanRun(CreateOptions)
    /\ LET row == StoredRow(NewItemAttrs(addedItems[i])) IN
          /\ IsNew(NewItemAttrs(addedItems[i])) <=> row.id \notin VisibleItemIds
          /\ calls' = Logged("createRow", i, CreateOptions)
          /\ db' = Insert(db, "items", { row }, CreateOptions)
          /\ tasks' = [tasks EXCEPT ![i] = [pc |-> "attachRow", model |-> row.id]]
          /\ nextId' = IF row.id = nextId.item
                       THEN [nextId EXCEPT !.item = @ + 1] ELSE nextId
    /\ UNCHANGED <<fn, transacting, unchangedItems, addedItems, itemsAttribute,
                   pc, result, newSetId, tx>>
    /\ UNCHANGED <<diffVars, restVars>>

CreateRowFail(i) ==
    /\ tasks[i].pc = "createRow"
    /\ calls' = Logged("createRow", i, CreateOptions)
    /\ TaskFails(i, <<"createRow", i>>)
    /\ UNCHANGED <<fn, transacting, unchangedItems, addedItems, itemsAttribute,
                   newSetId, db, nextId, tx>>
    /\ UNCHANGED <<diffVars, restVars>>

\* collection.create, second half: the new row is attached to the set.
AttachRowOk(i) ==
    /\ tasks[i].pc = "attachRow"
    /\ CanRun(CreateOptions)
    /\ calls' = Logged("attachRow", i, CreateOptions)
    /\ db' = Insert(db, "links", { <<newSetId, tasks[i].model>> }, CreateOptions)
    /\ tasks' = [tasks EXCEPT ![i].pc =
                    IF fn = "createNewRelationshipAttributeSetWithItems"
                    THEN "saveValue" ELSE "done"]
    /\ UNCHANGED <<fn, transacting, unchangedItems, addedItems, itemsAttribute,
                   pc, result, newSetId, nextId, tx>>
    /\ UNCHANGED <<diffVars, restVars>>

AttachRowFail(i) ==
    /\ tasks[i].pc = "attachRow"
    /\ calls' = Logged("attachRow", i, CreateOptions)
    /\ TaskFails(i, <<"attachRow", i>>)
    /\ UNCHANGED <<fn, transacting, unchangedItems, addedItems, itemsAttribute,
                   newSetId, db, nextId, tx>>
    /\ UNCHANGED <<diffVars, restVars>>

\* await new RelationshipAttributeTextValue({...}).save(null, {method: 'insert', transacting});
SaveValueOk(i) ==
    /\ tasks[i].pc = "saveValue"
    /\ CanRun(SaveValueOptions)
    /\ calls' = Logged("saveValue", i, SaveValueOptions)
    /\ db' = Insert(db, "values", { TextValueRow(tasks[i].model, addedItems[i]) },
                    SaveValueOptions)
    /\ tasks' = [tasks EXCEPT ![i].pc = "done"]
    /\ UNCHANGED <<fn, transacting, unchangedItems, addedItems, itemsAttribute,
                   pc, result, newSetId, nextId, tx>>
    /\ UNCHANGED <<diffVars, restVars>>

SaveValueFail(i) ==
    /\ tasks[i].pc = "saveValue"
    /\ calls' = Logged("saveValue", i, SaveValueOptions)
    /\ TaskFails(i, <<"saveValue", i>>)
    /\ UNCHANGED <<fn, transacting, unchangedItems, addedItems, itemsAttribute,
                   newSetId, db, nextId, tx>>
    /\ UNCHANGED <<diffVars, restVars>>

\* Promise.all resolved: return newSet;
ReturnNewSet ==
    /\ pc = "createAll"
    /\ \A i \in DOMAIN tasks : tasks[i].pc = "done"
    /\ result' = SetResult(newSetId)
    /\ pc' = "done"
    /\ UNCHANGED <<fn, transacting, unchangedItems, addedItems, itemsAttribute,
                   newSetId, tasks, db, nextId, tx, calls>>
    /\ UNCHANGED <<diffVars, restVars>>

\* The caller ends its transaction: it commits when the call returned,
\* and rolls back when the call threw.
CallerCommit ==
    /\ pc = "done"
    /\ result.kind \in { "set", "null" }
    /\ tx = "open"
    /\ db' = [committed |-> [t \in DOMAIN EmptyDb |->
                                IF t = "items"
                                THEN { r \in db.committed[t] :
                                         \A u \in db.pending[t] : u.id # r.id }
                                     \cup db.pending[t]
                                ELSE db.committed[t] \cup db.pending[t]],
              pending |-> EmptyDb]
    /\ tx' = "committed"
    /\ UNCHANGED <<fn, transacting, unchangedItems, addedItems, itemsAttribute,
                   pc, result, newSetId, tasks, nextId, calls>>
    /\ UNCHANGED <<diffVars, restVars>>

CallerRollback ==
    /\ pc = "done"
    /\ result.kind = "error"
    /\ tx = "open"
    /\ db' = [db EXCEPT !.pending = EmptyDb]
    /\ tx' = "rolledback"
    /\ UNCHANGED <<fn, transacting, unchangedItems, addedItems, itemsAttribute,
                   pc, result, newSetId, tasks, nextId, calls>>
    /\ UNCHANGED <<diffVars, restVars>>

Next ==
    \/ Call
    \/ SaveSetOk \/ SaveSetFail
    \/ FetchOk \/ FetchFail
    \/ AttachOk \/ AttachFail
    \/ \E i \in DOMAIN tasks : CreateRowOk(i)
    \/ \E i \in DOMAIN tasks : CreateRowFail(i)
    \/ \E i \in DOMAIN tasks : AttachRowOk(i)
    \/ \E i \in DOMAIN tasks : AttachRowFail(i)
    \/ \E i \in DOMAIN tasks : SaveValueOk(i)
    \/ \E i \in DOMAIN tasks : SaveValueFail(i)
    \/ ReturnNewSet
    \/ CallerCommit
    \/ CallerRollback

Spec == Init /\ [][Next]_vars

----------------------------------------------------------------------------
(* The differ applied to bounded inputs *)

DiffInit ==
    /\ oldSet \in SeqsUpTo(DiffItems, MaxItems)
    /\ newSet \in SeqsUpTo(DiffItems, MaxItems - Len(oldSet))
    /\ compareFields \in CompareFieldLists
    /\ diffPc = "input"
    /\ unchangedOut = <<>>
    /\ addedOut = <<>>
    /\ removedOut = <<>>
    /\ addedSwapOut = <<>>
    /\ cmpArgs = <<>>
    /\ cmpOut = FALSE
    /\ MatIdle
    /\ SmIdle /\ RdIdle /\ EdIdle

\* The three diff functions applied to (oldSet, newSet) with the comparator
\* built from compareFields.
ApplyDiff ==
    /\ diffPc = "input"
    /\ LET cmp == getComparisonFunc(compareFields) IN
          /\ unchangedOut' = getUnchangedItems(oldSet, newSet, cmp)
          /\ addedOut' = getAddedItems(oldSet, newSet, cmp)
          /\ removedOut' = getRemovedItems(oldSet, newSet, cmp)
          /\ addedSwapOut' = getAddedItems(newSet, oldSet, cmp)
    /\ diffPc' = "diffed"
    /\ UNCHANGED <<oldSet, newSet, compareFields, cmpArgs, cmpOut>>
    /\ UNCHANGED <<matVars, restVars>>

\* The comparator applied to an item of oldSet and an item of newSet.
ApplyCmp ==
    /\ diffPc = "input"
    /\ \E i \in DOMAIN oldSet, j \in DOMAIN newSet :
          /\ cmpArgs' = <<oldSet[i], newSet[j]>>
          /\ cmpOut' = Cmp(getComparisonFunc(compareFields), oldSet[i], newSet[j])
    /\ diffPc' = "compared"
    /\ UNCHANGED <<oldSet, newSet, compareFields, unchangedOut, addedOut,
                   removedOut, addedSwapOut>>
    /\ UNCHANGED <<matVars, restVars>>

DiffNext == ApplyDiff \/ ApplyCmp

SpecDiff == DiffInit /\ [][DiffNext]_vars

----------------------------------------------------------------------------
(* Properties of the differ *)

\* a and b agree on every field of fields: both carry it with the same value,
\* or neither carries it.
SameOn(a, b, fields) ==
    \A f \in Range(fields) :
        /\ (f \in DOMAIN a) <=> (f \in DOMAIN b)
        /\ (f \in DOMAIN a /\ f \in DOMAIN b) => a[f] = b[f]

\* The subsequence of s at the indices of I, in increasing order.
PickIdx(s, I) ==
    [k \in 1..Cardinality(I) |->
        s[CHOOSE i \in I : Cardinality({j \in I : j < i}) = k - 1]]

\* Indices of s whose item agrees with no earlier item of s.
FirstOccurrences(s, fields) ==
    { i \in DOMAIN s : \A k \in 1..(i - 1) : ~SameOn(s[k], s[i], fields) }

\* Indices of s whose item agrees with some / no item of t.
Matched(s, t, fields) ==
    { i \in DOMAIN s : \E j \in DOMAIN t : SameOn(s[i], t[j], fields) }

Unmatched(s, t, fields) == DOMAIN s \ Matched(s, t, fields)

\* C1: the unchanged and the added items are disjoint under the comparator,
\* and every item of newSet agrees with exactly one item of unchanged
\* followed by added.
C1_Partition ==
    diffPc = "diffed" =>
        LET both == unchangedOut \o addedOut IN
        /\ \A u \in DOMAIN unchangedOut, a \in DOMAIN addedOut :
              ~SameOn(unchangedOut[u], addedOut[a], compareFields)
        /\ \A j \in DOMAIN newSet :
              Cardinality({ k \in DOMAIN both :
                              SameOn(newSet[j], both[k], compareFields) }) = 1

C1_Witness ==
    /\ diffPc = "diffed"
    /\ unchangedOut # <<>>
    /\ addedOut # <<>>
    /\ Len(newSet) > Len(unchangedOut) + Len(addedOut)
    /\ compareFields = <<"name", "lang">>

\* C2: getUnchangedItems returns the items of oldSet that agree with an item
\* of newSet, one per class of agreeing items (the first of oldSet), so every
\* returned item is an item of oldSet and carries its id.
C2_UnchangedFromOld ==
    diffPc = "diffed" =>
        /\ unchangedOut =
              PickIdx(oldSet, Matched(oldSet, newSet, compareFields)
                              \cap FirstOccurrences(oldSet, compareFields))
        /\ \A u \in DOMAIN unchangedOut : unchangedOut[u] \in Range(oldSet)
        /\ \A j \in Matched(newSet, oldSet, compareFields) :
              \E u \in DOMAIN unchangedOut :
                  /\ SameOn(unchangedOut[u], newSet[j], compareFields)
                  /\ unchangedOut[u].id \in { oldSet[i].id : i \in DOMAIN oldSet }

C2_Witness ==
    /\ diffPc = "diffed"
    /\ compareFields = <<"name">>
    /\ Len(unchangedOut) = 1
    /\ Len(oldSet) = 2
    /\ \A j \in DOMAIN newSet : newSet[j].id # unchangedOut[1].id
    /\ \E j \in DOMAIN newSet : SameOn(newSet[j], unchangedOut[1], compareFields)

\* C3: getAddedItems returns the items of newSet that agree with no item of
\* oldSet, one per class of agreeing items, and nothing for an empty newSet.
C3_AddedItems ==
    diffPc = "diffed" =>
        /\ addedOut =
              PickIdx(newSet, Unmatched(newSet, oldSet, compareFields)
                              \cap FirstOccurrences(newSet, compareFields))
        /\ newSet = <<>> => addedOut = <<>>

C3_Witness ==
    /\ diffPc = "diffed"
    /\ oldSet # <<>>
    /\ addedOut # <<>>
    /\ Len(addedOut) < Cardinality(Unmatched(newSet, oldSet, compareFields))

\* C4: getRemovedItems returns the items of oldSet that agree with no item of
\* newSet, one per class, and equals getAddedItems with the arguments swapped.
C4_RemovedIsAddedSwapped ==
    diffPc = "diffed" =>
        /\ removedOut =
              PickIdx(oldSet, Unmatched(oldSet, newSet, compareFields)
                              \cap FirstOccurrences(oldSet, compareFields))
        /\ removedOut = addedSwapOut

C4_Witness ==
    /\ diffPc = "diffed"
    /\ newSet # <<>>
    /\ Len(removedOut) = 2
    /\ Len(oldSet) = 3

\* C5: a sequence diffed against itself: the unchanged items are the sequence
\* with agreeing items collapsed to their first occurrence, and nothing is
\* added or removed.
C5_SelfDiff ==
    (diffPc = "diffed" /\ newSet = oldSet) =>
        /\ unchangedOut = PickIdx(oldSet, FirstOccurrences(oldSet, compareFields))
        /\ addedOut = <<>>
        /\ removedOut = <<>>

C5_Witness ==
    /\ diffPc = "diffed"
    /\ newSet = oldSet
    /\ Len(oldSet) = 2
    /\ Len(unchangedOut) = 1
    /\ oldSet[1] # oldSet[2]

\* C6: the comparator returns true exactly when the two objects agree on
\* every compared field; a field one object carries and the other lacks
\* makes it return false.
C6_Comparator ==
    diffPc = "compared" =>
        /\ cmpOut <=> SameOn(cmpArgs[1], cmpArgs[2], compareFields)
        /\ (\E f \in Range(compareFields) :
               (f \in DOMAIN cmpArgs[1]) # (f \in DOMAIN cmpArgs[2])) => ~cmpOut

C6_Witness ==
    /\ diffPc = "compared"
    /\ compareFields = <<"name", "lang">>
    /\ cmpArgs[1].name = cmpArgs[2].name
    /\ "lang" \in DOMAIN cmpArgs[1]
    /\ "lang" \notin DOMAIN cmpArgs[2]
    /\ ~cmpOut

----------------------------------------------------------------------------
(* Properties of the materializer *)

\* Every row of a table, committed or pending, and the rows the call added.
AllRows(t) == db.committed[t] \cup db.pending[t]
NewRows(t) == AllRows(t) \ ExistingDb[t]
CommittedNew(t) == db.committed[t] \ ExistingDb[t]

UnchangedIds == { unchangedItems[i].id : i \in DOMAIN unchangedItems }
ModelIds == { tasks[i].model : i \in DOMAIN tasks }

\* The links of a complete new set: one per unchanged id, one per created row.
FullLinks == { <<newSetId, id>> : id \in UnchangedIds \cup ModelIds }

FullValues ==
    IF fn = "createNewRelationshipAttributeSetWithItems"
    THEN { [attributeId |-> tasks[i].model,
            textValue |-> addedItems[i].value.textValue] : i \in DOMAIN tasks }
    ELSE {}

\* C7: called with a non-blank itemsAttribute and both item lists empty, either
\* function returns null and makes no persistence call: nothing is inserted,
\* fetched, attached or created.
C7_EmptyShortCircuit ==
    (fn # "" /\ ~Falsy(itemsAttribute) /\ isEmpty(unchangedItems) /\ isEmpty(addedItems)) =>
        /\ pc = "done"
        /\ result = NullResult
        /\ calls = {}
        /\ newSetId = 0
        /\ \A t \in DOMAIN EmptyDb : AllRows(t) = ExistingDb[t]

C7_Witness ==
    /\ fn = "createNewRelationshipAttributeSetWithItems"
    /\ itemsAttribute = "relationshipAttributes"
    /\ isEmpty(unchangedItems)
    /\ isEmpty(addedItems)
    /\ result = NullResult
    /\ tx = "committed"

\* C8: a successful createNewSetWithItems with N unchanged and M added items
\* has inserted exactly one set row, which it returns; the set is linked to
\* the N existing rows by their ids and to M newly created item rows, no row
\* was created for an unchanged item, and no new row carries the id that
\* came in with its item.
C8_NewSetContents ==
    (fn = "createNewSetWithItems" /\ result.kind = "set") =>
        /\ NewRows("sets") = { result.set }
        /\ result.set = newSetId
        /\ Cardinality(NewRows("items")) = Len(addedItems)
        /\ Cardinality(ModelIds) = Len(addedItems)
        /\ \A i \in DOMAIN addedItems :
              \E r \in NewRows("items") :
                 /\ r.id = tasks[i].model
                 /\ omit(r, "id") = omit(addedItems[i], "id")
                 /\ "id" \in DOMAIN addedItems[i] => r.id # addedItems[i].id
        /\ { r.id : r \in NewRows("items") } \cap UnchangedIds = {}
        /\ { l \in AllRows("links") : l[1] = result.set } = FullLinks
        /\ Cardinality(FullLinks) = Len(unchangedItems) + Len(addedItems)
        /\ NewRows("links") = FullLinks

C8_Witness ==
    /\ fn = "createNewSetWithItems"
    /\ result.kind = "set"
    /\ Len(unchangedItems) = 2
    /\ Len(addedItems) = 2
    /\ \E i \in DOMAIN addedItems : "id" \in DOMAIN addedItems[i]
    /\ tx = "committed"

\* C9: once the caller's transaction has ended, the rows of the call are
\* committed all together or not at all: after a failure none of them is
\* committed, and after a commit the new set row is there with all its links,
\* its new item rows and their value rows.
C9_AllOrNothing ==
    /\ tx = "rolledback" =>
          \A t \in DOMAIN EmptyDb : db.committed[t] = ExistingDb[t]
    /\ (tx # "open" /\ result.kind = "error") =>
          \A t \in DOMAIN EmptyDb : db.committed[t] = ExistingDb[t]
    /\ tx = "committed" =>
          \/ \A t \in DOMAIN EmptyDb : db.committed[t] = ExistingDb[t]
          \/ /\ CommittedNew("sets") = { newSetId }
             /\ CommittedNew("links") = FullLinks
             /\ { r.id : r \in CommittedNew("items") } = ModelIds
             /\ Cardinality(CommittedNew("items")) = Len(addedItems)
             /\ Cardinality(FullLinks) = Len(unchangedItems) + Len(addedItems)
             /\ CommittedNew("values") = FullValues
             /\ Cardinality(FullValues) =
                   IF fn = "createNewRelationshipAttributeSetWithItems"
                   THEN Len(addedItems) ELSE 0

C9_Witness ==
    /\ tx = "rolledback"
    /\ fn = "createNewRelationshipAttributeSetWithItems"
    /\ newSetId # 0
    /\ unchangedItems # <<>>
    /\ \E i, j \in DOMAIN tasks :
          /\ tasks[i].pc = "failed" /\ tasks[i].model = 0
          /\ tasks[j].pc = "failed" /\ tasks[j].model # 0

\* C10: a successful createNewRelationshipAttributeSetWithItems has created,
\* for every added item, exactly one text value row that points at the item
\* row created for that item and carries the item's value.textValue, and no
\* value row for an unchanged item; a value row never exists before its item
\* row.
C10_TextValues ==
    fn = "createNewRelationshipAttributeSetWithItems" =>
        /\ result.kind = "set" =>
              /\ NewRows("values") = FullValues
              /\ Cardinality(NewRows("values")) = Len(addedItems)
              /\ \A i \in DOMAIN addedItems :
                    /\ [id |-> tasks[i].model,
                        attributeType |-> addedItems[i].attributeType]
                          \in NewRows("items")
                    /\ Cardinality({ v \in NewRows("values") :
                                       v.attributeId = tasks[i].model }) = 1
              /\ \A v \in NewRows("values") : v.attributeId \notin UnchangedIds
        /\ \A v \in NewRows("values") :
              \E r \in NewRows("items") : r.id = v.attributeId

C10_Witness ==
    /\ fn = "createNewRelationshipAttributeSetWithItems"
    /\ result.kind = "set"
    /\ unchangedItems # <<>>
    /\ Len(addedItems) = 2
    /\ addedItems[1].value.textValue # addedItems[2].value.textValue

\* The rows that link the new set to the unchanged items.
UnchangedLinks == { <<newSetId, id>> : id \in UnchangedIds }

\* The operations of the calls a step makes.
NewOps == { c.op : c \in calls' \ calls }

\* C11: with itemsAttribute omitted or blank, either function fails with an
\* error and makes no persistence call, whatever the item lists are, also
\* when both are empty.
C11_InvalidArgument ==
    (fn # "" /\ itemsAttribute \in { Omitted, "" }) =>
        /\ pc = "done"
        /\ result.kind = "error"
        /\ result.error = <<"itemsAttribute must be set", fn>>
        /\ calls = {}
        /\ newSetId = 0
        /\ \A t \in DOMAIN EmptyDb : AllRows(t) = ExistingDb[t]

C11_Witness ==
    /\ fn = "createNewRelationshipAttributeSetWithItems"
    /\ itemsAttribute = ""
    /\ isEmpty(unchangedItems)
    /\ isEmpty(addedItems)
    /\ result.kind = "error"
    /\ tx = "rolledback"

\* C12: the new set row is inserted before anything is fetched or attached,
\* and the unchanged items are all attached before the creation of any added
\* item starts.
C12_Ordering ==
    [][ /\ (NewOps \cap { "fetch", "attach" } # {}) =>
              /\ newSetId # 0
              /\ newSetId \in db.pending.sets
              /\ \E c \in calls : c.op = "saveSet"
        /\ (AllRows("links")' # AllRows("links") /\ tx' = tx) =>
              newSetId \in AllRows("sets")
        /\ (tasks = <<>> /\ tasks' # <<>>) =>
              /\ UnchangedLinks \subseteq db'.pending.links
              /\ NewOps \cap { "createRow", "attachRow", "saveValue" } = {}
        /\ (NewOps \cap { "createRow", "attachRow", "saveValue" } # {}) =>
              /\ \E c \in calls : c.op = "attach"
              /\ tasks # <<>>
              /\ tx = "open" => UnchangedLinks \subseteq db.pending.links
      ]_vars

C12_Witness ==
    /\ pc = "createAll"
    /\ Len(unchangedItems) = 2
    /\ Len(addedItems) = 2
    /\ tasks[1].pc = "createRow"
    /\ tasks[2].pc = "attachRow"

\* C13: materialization never changes a row that existed before the call:
\* every stored set keeps its links, and every stored item row, the
\* unchanged items included, keeps its values.
C13_ExistingRowsUntouched ==
    /\ \A t \in DOMAIN EmptyDb : ExistingDb[t] \subseteq db.committed[t]
    /\ { l \in AllRows("links") : l[1] \in ExistingDb.sets } = ExistingDb.links
    /\ { r \in AllRows("items") : r.id \in { e.id : e \in ExistingDb.items } }
          = ExistingDb.items
    /\ { v \in AllRows("values") :
           v.attributeId \in { e.id : e \in ExistingDb.items } } = ExistingDb.values

C13_Witness ==
    /\ fn = "createNewSetWithItems"
    /\ tx = "committed"
    /\ result.kind = "set"
    /\ Len(unchangedItems) = 1
    /\ Len(addedItems) = 2
    /\ \A i \in DOMAIN addedItems : "id" \in DOMAIN addedItems[i]

\* C15: every persistence call is given the caller's transaction handle, no
\* row is written outside the transaction, and the transaction is ended by
\* the caller only, after the function has settled.
C15_OneTransaction ==
    /\ [](/\ \A c \in calls : c.transacting = transacting
          /\ transacting = Trx
          /\ tx = "open" => db.committed = ExistingDb)
    /\ [][tx' # tx => (pc = "done" /\ pc' = "done" /\ calls' = calls)]_vars

C15_Witness ==
    /\ fn = "createNewRelationshipAttributeSetWithItems"
    /\ result.kind = "set"
    /\ Cardinality(calls) = 9
    /\ tx = "committed"

\* C16: when a persistence call fails the function settles to the error of
\* that call: a failed step is never followed by a returned set or null, is
\* not tried again, and the error, once reported, is not replaced.
C16_ErrorPropagates ==
    /\ [](/\ (\E i \in DOMAIN tasks : tasks[i].pc = "failed") => result.kind = "error"
          /\ result.kind \in { "set", "null" } =>
                \A i \in DOMAIN tasks : tasks[i].pc = "done"
          /\ (result.kind = "error" /\ result.error[1] # "itemsAttribute must be set") =>
                /\ \E c \in calls : c.op = result.error[1] /\ c.item = result.error[2]
                /\ result.error[2] > 0 => tasks[result.error[2]].pc = "failed"
                /\ result.error[2] = 0 => tasks = <<>>
                /\ result.error[1] = "saveSet" => newSetId = 0)
    /\ [][ /\ result.kind # "none" => result' = result
           /\ \A i \in DOMAIN tasks :
                 /\ tasks[i].pc = "failed" => tasks'[i] = tasks[i]
                 /\ (tasks[i].pc # "failed" /\ tasks'[i].pc = "failed"
                       /\ result.kind = "none") =>
                       /\ result'.kind = "error"
                       /\ result'.error[2] = i
           /\ (pc \in { "saveSet", "fetch", "attach" } /\ pc' = "done") =>
                 /\ result'.kind = "error"
                 /\ result'.error = <<pc, 0>>
         ]_vars

C16_Witness ==
    /\ fn = "createNewRelationshipAttributeSetWithItems"
    /\ result.kind = "error"
    /\ result.error = <<"saveValue", 2>>
    /\ tasks[1].pc = "done"

\* C17: once the function has reported a failure it makes no further
\* persistence call on the transaction.
C17_NoCallAfterFailure ==
    [][result.kind = "error" => calls' = calls]_vars

----------------------------------------------------------------------------
(* The set models and their items relation: a set row is linked to its item
   rows through a pivot table, and reloading the set with the relation
   joins the pivot rows of that set to the item rows *)

ItemIds == { 1, 2, 3 }

OtherSetIds == { 2 }

PivotColumns == { "set_id", "attribute_id" }

\* The relation declared with its keys exchanged.
relationWithKeysExchanged == [foreignKey |-> "attribute_id", otherKey |-> "set_id"]

relationshipAttributes == [foreignKey |-> "set_id", otherKey |-> "attribute_id"]

ItemRow(i) == [id |-> i, value |-> <<"item", i>>]

\* The pivot row that links the set to the item under a relation's keys.
PivotRow(relation, setId, itemId) ==
    [c \in PivotColumns |-> IF c = relation.foreignKey THEN setId ELSE itemId]

\* relation.attach(models): one pivot row per model.
attach(d, relation, setId, models) ==
    [d EXCEPT !.pivot =
        @ \cup { PivotRow(relation, setId, models[i].id) : i \in DOMAIN models }]

\* model.refresh({withRelated}): the item rows joined to the set's pivot rows.
withRelated(d, relation, setId) ==
    { it \in d.items :
        \E p \in d.pivot :
            /\ p[relation.foreignKey] = setId
            /\ p[relation.otherKey] = it.id }

\* Sequences of distinct elements of S.
DistinctSeqs(S) ==
    { q \in SeqsUpTo(S, Cardinality(S)) :
        \A i, j \in DOMAIN q : i # j => q[i] # q[j] }

SmInit ==
    /\ \E I \in SUBSET ItemIds, O \in SUBSET OtherSetIds :
         \E P \in SUBSET { [set_id |-> o, attribute_id |-> i] : o \in O, i \in I } :
            smDb = [sets |-> O, items |-> { ItemRow(i) : i \in I }, pivot |-> P]
    /\ smPc = "start"
    /\ smAttached = <<>>
    /\ smLoaded = {}
    /\ MatIdle /\ DiffIdle /\ RdIdle /\ EdIdle

\* new Set({id: 1}).save(null, {method: 'insert'})
SmSaveSet ==
    /\ smPc = "start"
    /\ TestSetId \notin smDb.sets
    /\ smDb' = [smDb EXCEPT !.sets = @ \cup { TestSetId }]
    /\ smPc' = "saved"
    /\ UNCHANGED <<smAttached, smLoaded, diffVars, matVars, rdVars, edVars>>

\* model.items().attach(items).then(() => model), items saved beforehand
SmAttach ==
    /\ smPc = "saved"
    /\ \E models \in DistinctSeqs(smDb.items) :
         /\ models # <<>>
         /\ smAttached' = models
         /\ smDb' = attach(smDb, relationshipAttributes, TestSetId, models)
    /\ smPc' = "attached"
    /\ UNCHANGED <<smLoaded, diffVars, matVars, rdVars, edVars>>

\* model.refresh({withRelated: [items]}).then(model => model.toJSON())
SmRefresh ==
    /\ smPc \in { "saved", "attached" }
    /\ smLoaded' = withRelated(smDb, relationshipAttributes, TestSetId)
    /\ smPc' = "loaded"
    /\ UNCHANGED <<smDb, smAttached, diffVars, matVars, rdVars, edVars>>

SmNext ==
    \/ SmSaveSet
    \/ SmAttach
    \/ SmRefresh

SpecSetModel == SmInit /\ [][SmNext]_vars

\* C14: a set inserted with nothing attached reloads with an empty item
\* list; after attaching k distinct stored item rows it reloads with exactly
\* those k rows, ids unchanged.
C14_ReloadYieldsAttached ==
    smPc = "loaded" =>
        /\ smAttached = <<>> => smLoaded = {}
        /\ smLoaded = Range(smAttached)
        /\ Cardinality(smLoaded) = Len(smAttached)
        /\ { r.id : r \in smLoaded } = { smAttached[i].id : i \in DOMAIN smAttached }
        /\ smLoaded \subseteq smDb.items

C14_Witness ==
    /\ smPc = "loaded"
    /\ Len(smAttached) = 2
    /\ \E p \in smDb.pivot : p.set_id # TestSetId /\ ItemRow(p.attribute_id) \notin smLoaded

----------------------------------------------------------------------------
(* recursivelyGetRedirectBBID: follow the entity_redirect table *)

BBIDs == { "A", "B", "C" }

NoRedirect == "none"             \* no entity_redirect row has this source_bbid

Knex == "knex"                   \* orm.bookshelf.knex: a connection outside any transaction

\* The redirect tables: at most one target per source_bbid.
RedirectTables == [BBIDs -> BBIDs \cup { NoRedirect }]

\* redirectQueryResults.rows for WHERE source_bbid = bbid
Rows(table, bbid) ==
    IF table[bbid] = NoRedirect THEN <<>> ELSE << [target_bbid |-> table[bbid]] >>

\* transacting || orm.bookshelf.knex
Executor(t) == IF t # UndefinedArg THEN t ELSE Knex

\* The arguments of the recursive call.
RecursiveCall(redirectedBBID) == [bbid |-> redirectedBBID, transacting |-> UndefinedArg]

Lookup(frame) == [bbid |-> frame.bbid, via |-> Executor(frame.transacting)]

RdInit ==
    /\ redirects \in RedirectTables
    /\ rdArg = [bbid |-> "", transacting |-> UndefinedArg]
    /\ rdCur = [bbid |-> "", transacting |-> UndefinedArg]
    /\ rdPc = "idle"
    /\ rdResult = ""
    /\ rdLog = {}
    /\ MatIdle /\ DiffIdle /\ SmIdle /\ EdIdle

RdCall ==
    /\ rdPc = "idle"
    /\ \E b \in BBIDs, t \in { Trx, UndefinedArg } :
         /\ rdArg' = [bbid |-> b, transacting |-> t]
         /\ rdCur' = [bbid |-> b, transacting |-> t]
    /\ rdPc' = "query"
    /\ UNCHANGED <<redirects, rdResult, rdLog, diffVars, matVars, smVars, edVars>>

\* The query found no row: return bbid, which resolves every enclosing call.
RdQueryMiss ==
    /\ rdPc = "query"
    /\ Rows(redirects, rdCur.bbid) = <<>>
    /\ rdLog' = rdLog \cup { Lookup(rdCur) }
    /\ rdResult' = rdCur.bbid
    /\ rdPc' = "returned"
    /\ UNCHANGED <<redirects, rdArg, rdCur, diffVars, matVars, smVars, edVars>>

\* The query found a row, and the function returns the bbid of the first
\* row without looking further.
RdQueryHitWithoutRecursion ==
    /\ rdPc = "query"
    /\ Rows(redirects, rdCur.bbid) # <<>>
    /\ rdLog' = rdLog \cup { Lookup(rdCur) }
    /\ rdResult' = Rows(redirects, rdCur.bbid)[1].target_bbid
    /\ rdPc' = "returned"
    /\ UNCHANGED <<redirects, rdArg, rdCur, diffVars, matVars, smVars, edVars>>

\* The query found a row: recurse on the target of the first row.
RdQueryHit ==
    /\ rdPc = "query"
    /\ Rows(redirects, rdCur.bbid) # <<>>
    /\ rdLog' = rdLog \cup { Lookup(rdCur) }
    /\ rdCur' = RecursiveCall(Rows(redirects, rdCur.bbid)[1].target_bbid)
    /\ UNCHANGED <<redirects, rdArg, rdPc, rdResult, diffVars, matVars, smVars, edVars>>

\* The query rejects: the await throws through every enclosing call.
RdQueryFail ==
    /\ rdPc = "query"
    /\ rdLog' = rdLog \cup { Lookup(rdCur) }
    /\ rdPc' = "threw"
    /\ UNCHANGED <<redirects, rdArg, rdCur, rdResult, diffVars, matVars, smVars, edVars>>

RdNext ==
    \/ RdCall
    \/ RdQueryMiss
    \/ RdQueryHit
    \/ RdQueryFail

SpecRedirect == RdInit /\ [][RdNext]_vars

\* The event loop runs every continuation whose query has been answered.
SpecRedirectFair == RdInit /\ [][RdNext]_vars /\ WF_vars(RdNext)

\* One step along the table from the bbids of S.
Follow(table, S) ==
    S \cup { table[x] : x \in { y \in S : table[y] # NoRedirect } }

RECURSIVE Reachable(_, _)
Reachable(table, S) ==
    IF Follow(table, S) = S THEN S ELSE Reachable(table, Follow(table, S))

\* The bbids reachable from b that redirect nowhere: none exactly when a
\* redirect cycle is reachable from b.
ChainEnds(table, b) ==
    { x \in Reachable(table, { b }) : table[x] = NoRedirect }

\* C18: the call returns the first bbid without outgoing redirect on the
\* chain from bbid (bbid itself when it has none); it never returns when a
\* redirect cycle is reachable from bbid, and it terminates when none is.
C18_FollowsRedirects ==
    /\ [](rdPc = "returned" =>
            /\ ChainEnds(redirects, rdArg.bbid) = { rdResult }
            /\ redirects[rdArg.bbid] = NoRedirect => rdResult = rdArg.bbid)
    /\ []((rdPc # "idle" /\ ChainEnds(redirects, rdArg.bbid) = {}) =>
            rdPc # "returned")
    /\ ((rdPc = "query" /\ ChainEnds(redirects, rdArg.bbid) # {})
            ~> rdPc \in { "returned", "threw" })

C18_Witness ==
    /\ rdPc = "returned"
    /\ redirects[rdArg.bbid] # NoRedirect
    /\ redirects[redirects[rdArg.bbid]] = rdResult
    /\ Cardinality({ rdArg.bbid, redirects[rdArg.bbid], rdResult }) = 3

\* C19: called with a transaction, every redirect lookup of the chain runs
\* through that transaction.
C19_LookupsInTransaction ==
    rdArg.transacting = Trx => \A l \in rdLog : l.via = Trx

----------------------------------------------------------------------------
(* deleteEditorByMetaBrainzID: anonymise an editor inside one transaction *)

EditorIds == { "1", "2" }

MetaBrainzIds == { "mb1", "mb2", "mb9" }

LanguageIds == { "en", "fr" }

Null == "null"

\* The columns of bookbrainz.editor that the statements read and write.
EditorColumns ==
    { "id", "metabrainz_user_id", "name", "cached_metabrainz_name",
      "bio", "gender_id", "area_id" }

LanguageColumns == { "editor_id", "language_id" }

EditorRow(id) ==
    [id |-> id, metabrainz_user_id |-> "mb" \o id, name |-> <<"Editor", id>>,
     cached_metabrainz_name |-> "user" \o id, bio |-> "bio" \o id,
     gender_id |-> "g1", area_id |-> "a1"]

EditorRows == { EditorRow(id) : id \in EditorIds }

\* A statement is rejected when its filter names a column the table lacks.
StatementOk(columns, cond) == DOMAIN cond \subseteq columns

\* The rows a where({...}) filter selects.
Matching(rows, cond) == { r \in rows : \A c \in DOMAIN cond : r[c] = cond[c] }

\* update({...}) of the selected rows.
Updated(rows, cond, changes) ==
    { IF r \in Matching(rows, cond)
        THEN [c \in DOMAIN r |-> IF c \in DOMAIN changes THEN changes[c] ELSE r[c]]
        ELSE r : r \in rows }

GetEditorWhere(metabrainzUserID) == [metabrainz_user_id |-> metabrainzUserID]

\* The filter of the anonymising update, on the id column.
ClearEditorWhereId(id) == [id |-> id]

ClearEditorWhere(id) == [editor_id |-> id]

ClearEditorChanges(id) ==
    [area_id |-> Null, bio |-> "", cached_metabrainz_name |-> "<deleted>",
     gender_id |-> Null, name |-> <<"Deleted Editor #", id>>]

ClearEditorLanguagesWhere(id) == [editor_id |-> id]

\* rows.length > 0 ? rows[0].id : null, metabrainz_user_id being unique
getEditorIDByMetaBrainzID(d, metabrainzUserID) ==
    LET rows == Matching(d.editors, GetEditorWhere(metabrainzUserID))
    IN  IF rows # {} THEN (CHOOSE r \in rows : TRUE).id ELSE Null

\* Promise.all of the two writes, then () => true
Settled(writes) ==
    IF \E w \in DOMAIN writes : writes[w] = "failed" THEN "rejected"
    ELSE IF \A w \in DOMAIN writes : writes[w] = "ok" THEN "returnedTrue"
    ELSE "writes"

EdInit ==
    /\ \E L \in SUBSET (EditorIds \X LanguageIds) :
         edDb = [editors |-> EditorRows,
                 languages |-> { [editor_id |-> l[1], language_id |-> l[2]] : l \in L }]
    /\ edBefore = edDb
    /\ edView = edDb
    /\ edArg = ""
    /\ edPc = "idle"
    /\ editorID = Null
    /\ edWrites = [clearEditor |-> "pending", clearEditorLanguages |-> "pending"]
    /\ edResult = "none"
    /\ edTx = "none"
    /\ edFault = FALSE
    /\ MatIdle /\ DiffIdle /\ SmIdle /\ RdIdle

\* knex.transaction(trx => ...): begin
EdCall ==
    /\ edPc = "idle"
    /\ \E m \in MetaBrainzIds : edArg' = m
    /\ edTx' = "open"
    /\ edPc' = "select"
    /\ UNCHANGED <<edDb, edBefore, edView, editorID, edWrites, edResult, edFault>>
    /\ UNCHANGED <<diffVars, matVars, smVars, rdVars>>

\* The lookup answers: return false when there is no editor, else start
\* both writes.
EdSelect ==
    /\ edPc = "select"
    /\ editorID' = getEditorIDByMetaBrainzID(edView, edArg)
    /\ edPc' = IF editorID' = Null THEN "returnedFalse" ELSE "writes"
    /\ UNCHANGED <<edDb, edBefore, edView, edArg, edWrites, edResult, edTx, edFault>>
    /\ UNCHANGED <<diffVars, matVars, smVars, rdVars>>

EdSelectFail ==
    /\ edPc = "select"
    /\ edPc' = "rejected"
    /\ edFault' = TRUE
    /\ UNCHANGED <<edDb, edBefore, edView, edArg, editorID, edWrites, edResult, edTx>>
    /\ UNCHANGED <<diffVars, matVars, smVars, rdVars>>

\* clearEditorByID answers: the update is applied, or rejected for its filter.
EdClearEditor ==
    /\ edPc \in { "writes", "rejected" }
    /\ edTx = "open"
    /\ edWrites.clearEditor = "pending"
    /\ IF StatementOk(EditorColumns, ClearEditorWhere(editorID))
         THEN /\ edView' = [edView EXCEPT !.editors =
                    Updated(@, ClearEditorWhere(editorID), ClearEditorChanges(editorID))]
              /\ edWrites' = [edWrites EXCEPT !.clearEditor = "ok"]
         ELSE /\ edView' = edView
              /\ edWrites' = [edWrites EXCEPT !.clearEditor = "failed"]
    /\ edPc' = IF edPc = "writes" THEN Settled(edWrites') ELSE edPc
    /\ UNCHANGED <<edDb, edBefore, edArg, editorID, edResult, edTx, edFault>>
    /\ UNCHANGED <<diffVars, matVars, smVars, rdVars>>

\* The database fails the update.
EdClearEditorFail ==
    /\ edPc \in { "writes", "rejected" }
    /\ edTx = "open"
    /\ edWrites.clearEditor = "pending"
    /\ edWrites' = [edWrites EXCEPT !.clearEditor = "failed"]
    /\ edFault' = TRUE
    /\ edPc' = IF edPc = "writes" THEN Settled(edWrites') ELSE edPc
    /\ UNCHANGED <<edDb, edBefore, edView, edArg, editorID, edResult, edTx>>
    /\ UNCHANGED <<diffVars, matVars, smVars, rdVars>>

\* clearEditorLanguagesByEditorID answers.
EdClearEditorLanguages ==
    /\ edPc \in { "writes", "rejected" }
    /\ edTx = "open"
    /\ edWrites.clearEditorLanguages = "pending"
    /\ IF StatementOk(LanguageColumns, ClearEditorLanguagesWhere(editorID))
         THEN /\ edView' = [edView EXCEPT !.languages =
                    @ \ Matching(@, ClearEditorLanguagesWhere(editorID))]
              /\ edWrites' = [edWrites EXCEPT !.clearEditorLanguages = "ok"]
         ELSE /\ edView' = edView
              /\ edWrites' = [edWrites EXCEPT !.clearEditorLanguages = "failed"]
    /\ edPc' = IF edPc = "writes" THEN Settled(edWrites') ELSE edPc
    /\ UNCHANGED <<edDb, edBefore, edArg, editorID, edResult, edTx, edFault>>
    /\ UNCHANGED <<diffVars, matVars, smVars, rdVars>>

\* The database fails the delete.
EdClearEditorLanguagesFail ==
    /\ edPc \in { "writes", "rejected" }
    /\ edTx = "open"
    /\ edWrites.clearEditorLanguages = "pending"
    /\ edWrites' = [edWrites EXCEPT !.clearEditorLanguages = "failed"]
    /\ edFault' = TRUE
    /\ edPc' = IF edPc = "writes" THEN Settled(edWrites') ELSE edPc
    /\ UNCHANGED <<edDb, edBefore, edView, edArg, editorID, edResult, edTx>>
    /\ UNCHANGED <<diffVars, matVars, smVars, rdVars>>

\* The callback's promise resolved: knex commits and resolves with its value.
EdCommit ==
    /\ edPc \in { "returnedFalse", "returnedTrue" }
    /\ edTx = "open"
    /\ edDb' = edView
    /\ edTx' = "committed"
    /\ edResult' = IF edPc = "returnedTrue" THEN "true" ELSE "false"
    /\ edPc' = "done"
    /\ UNCHANGED <<edBefore, edView, edArg, editorID, edWrites, edFault>>
    /\ UNCHANGED <<diffVars, matVars, smVars, rdVars>>

\* The callback's promise rejected: knex rolls back and rejects.
EdRollback ==
    /\ edPc = "rejected"
    /\ edTx = "open"
    /\ edView' = edDb
    /\ edTx' = "rolledback"
    /\ edResult' = "error"
    /\ edPc' = "done"
    /\ UNCHANGED <<edDb, edBefore, edArg, editorID, edWrites, edFault>>
    /\ UNCHANGED <<diffVars, matVars, smVars, rdVars>>

EdNext ==
    \/ EdCall
    \/ EdSelect
    \/ EdSelectFail
    \/ EdClearEditor
    \/ EdClearEditorFail
    \/ EdClearEditorLanguages
    \/ EdClearEditorLanguagesFail
    \/ EdCommit
    \/ EdRollback

SpecEditor == EdInit /\ [][EdNext]_vars

\* The editor row of the call's MetaBrainz user id before the call, if any.
EditorBefore == Matching(edBefore.editors, GetEditorWhere(edArg))

\* C20: with no editor of that MetaBrainz id the call returns false and
\* changes nothing; otherwise, unless the database fails a statement, it
\* returns true with the editor row anonymised and the editor's language
\* rows deleted; a failed call commits neither write.
C20_DeleteEditor ==
    edPc = "done" =>
        /\ EditorBefore = {} =>
              (~edFault => edResult = "false" /\ edDb = edBefore
                              /\ \A w \in DOMAIN edWrites : edWrites[w] = "pending")
        /\ (EditorBefore # {} /\ ~edFault) =>
              /\ edResult = "true"
              /\ \A w \in DOMAIN edWrites : edWrites[w] = "ok"
              /\ edDb.editors =
                    Updated(edBefore.editors, ClearEditorWhereId(editorID),
                            ClearEditorChanges(editorID))
              /\ edDb.languages =
                    edBefore.languages \ Matching(edBefore.languages,
                                                  ClearEditorLanguagesWhere(editorID))
        /\ edResult = "error" => (edTx = "rolledback" /\ edDb = edBefore)

====
